---- MODULE Spec2Model ----
(***************************************************************************)
(* Model of goog.ui.Dialog and goog.ui.Dialog.ButtonSet                    *)
(* (static/js/closure/goog/ui/dialog.js).                                  *)
(*                                                                         *)
(* The program state is one "world" record: the Dialog's fields, the       *)
(* ButtonSet's fields, the part of the DOM the dialog owns, the listeners  *)
(* registered through the component's event handler, and the events the    *)
(* running handler has dispatched.  Every method of the source is an       *)
(* operator from world to world, composed the way the source calls them;   *)
(* an exception is a world whose err field is set, which every later       *)
(* statement passes through unchanged.                                     *)
(***************************************************************************)
EXTENDS Integers, Sequences, FiniteSets, TLC

(* ---------------------------------------------------------------- values *)

NULL == "null"
UNDEFINED == "undefined"
NoErr == "none"
TypeError == "TypeError"
ALREADY_RENDERED == "ALREADY_RENDERED"
NOT_SUPPORTED == "NOT_SUPPORTED"

\* goog.events.KeyCodes, as used by onKeyDown_
ESC == 27
ENTER == 13
TAB == 9

\* goog.ui.Dialog.EventType
SELECT == "dialogselect"
AFTER_HIDE == "afterhide"

\* goog.ui.Dialog.DefaultButtonKeys, the part the model uses
DefaultButtonKeys == [OK |-> "ok", CANCEL |-> "cancel", SAVE |-> "save"]

\* the listeners the dialog registers through getHandler()
L_TITLE_CLOSE == "titleCloseEl_.click"
L_FOCUSIN == "focusHandler_.focusin"
L_KEYDOWN == "element.keydown"
L_RESIZE == "window.resize"
L_BUTTON_CLICK == "buttonEl_.click"

(* ---------------------------------------------------------------- bounds *)

\* number of removals a stand-alone button set run may perform
MaxRemovals == 1

\* at most this many focusElement_ timers are pending at a time
MaxTimers == 1

\* keys a stand-alone button set is exercised with
BsKeys == {DefaultButtonKeys.OK, DefaultButtonKeys.CANCEL}

\* keys the dialog's own button set is given by setDefault and setCancel: no
\* key, a key of the default OK_CANCEL set, a key that is not in it
DefaultKeyInputs == {NULL, DefaultButtonKeys.OK, DefaultButtonKeys.SAVE}
CancelKeyInputs == {NULL, DefaultButtonKeys.CANCEL}

\* captions: a string, or a DOM node
Captions == {"text", "NODE"}

(* ------------------------------------------------- goog.structs.Map part *)
\* A map is the sequence of its [key, caption] entries in key-insertion order.

MapKeys(map) == [i \in 1..Len(map) |-> map[i].key]

MapHas(map, key) == \E i \in 1..Len(map) : map[i].key = key

MapGet(map, key) ==
    IF MapHas(map, key)
    THEN (CHOOSE e \in {map[i] : i \in 1..Len(map)} : e.key = key).caption
    ELSE UNDEFINED

MapSet(map, key, caption) ==
    IF MapHas(map, key)
    THEN [i \in 1..Len(map) |->
            IF map[i].key = key THEN [key |-> key, caption |-> caption] ELSE map[i]]
    ELSE Append(map, [key |-> key, caption |-> caption])

MapRemove(map, key) == SelectSeq(map, LAMBDA e : e.key # key)

\* String(x) of a caption, as JavaScript converts it
String(x) ==
    CASE x = UNDEFINED -> "undefined"
      [] x = "NODE" -> "[object HTMLElement]"
      [] OTHER -> x

(* ------------------------------------------------------------ the world *)

\* a rendered button gone wrong: the default button is not marked
Button_Unstyled(name, isDefault) ==
    [name |-> name, id |-> "", disabled |-> FALSE, className |-> ""]

\* a button element inside the button container, as render() creates it
Button(name, isDefault) ==
    [name |-> name, id |-> "", disabled |-> FALSE,
     className |-> IF isDefault THEN "goog-buttonset-default" ELSE ""]

\* the element a button set's element_ refers to: the button container of the
\* dialog at hand, or that of another dialog using the same button set
OwnContainer == "buttonEl_"
OtherContainer == "other.buttonEl_"

\* goog.ui.Dialog.ButtonSet.OK_CANCEL
OK_CANCEL ==
    [map |-> << [key |-> DefaultButtonKeys.OK, caption |-> "text"],
                [key |-> DefaultButtonKeys.CANCEL, caption |-> "text"] >>,
     defaultButton_ |-> DefaultButtonKeys.OK,
     cancelButton_ |-> DefaultButtonKeys.CANCEL,
     element_ |-> FALSE, attachedTo |-> OwnContainer]

\* new goog.ui.Dialog.ButtonSet()
NewButtonSet ==
    [map |-> << >>, defaultButton_ |-> NULL, cancelButton_ |-> NULL,
     element_ |-> FALSE, attachedTo |-> OwnContainer]

\* new goog.ui.Dialog(opt_class, opt_useIframeMask): element references are
\* TRUE when the field holds an element and FALSE when it is null; disposals
\* counts the runs of the body of disposeInternal, relistened tells whether
\* the handler was ever asked for a listener it had registered already
NewDialog(useIframeMask) ==
    [useIframeMask_ |-> useIframeMask,
     modal_ |-> TRUE, draggable_ |-> TRUE, dragger_ |-> FALSE,
     visible_ |-> FALSE, disposeOnHide_ |-> FALSE,
     buttons_ |-> "buttonSet",
     element_ |-> FALSE, titleEl_ |-> FALSE, titleTextEl_ |-> FALSE,
     titleCloseEl_ |-> FALSE, contentEl_ |-> FALSE, buttonEl_ |-> FALSE,
     tabCatcherEl_ |-> FALSE, bgEl_ |-> FALSE, bgIframeEl_ |-> FALSE,
     focusHandler_ |-> TRUE,
     inDocument_ |-> FALSE, wasDecorated_ |-> FALSE, disposed_ |-> FALSE,
     disposals |-> 0, relistened |-> FALSE]

\* goog.userAgent: which of IE, GECKO, WEBKIT, OPERA is true (NoAgent: none)
NoAgent == "none"
UserAgents == {"IE", "GECKO", "WEBKIT", "OPERA", NoAgent}

\* document.activeElement: the body, the dialog's root element, its
\* tab-catcher, or the i-th button of the button container
Body == [el |-> "body", i |-> 0]
Root == [el |-> "root", i |-> 0]
TabCatcher == [el |-> "tabCatcher", i |-> 0]
ButtonEl(i) == [el |-> "button", i |-> i]

\* the DOM the dialog and its button set act on
NewDoc ==
    [buttons |-> << >>,
     elementInDoc |-> FALSE, elementShown |-> FALSE,
     bgInDoc |-> FALSE, bgShown |-> FALSE,
     bgIframeInDoc |-> FALSE, bgIframeShown |-> FALSE,
     userAgent |-> NoAgent, activeElement |-> Body, timers |-> 0,
     otherButtons |-> << >>]

World(d, bs, dc, ls) ==
    [dialog |-> d, buttonSet |-> bs, doc |-> dc, listeners |-> ls,
     events |-> << >>, err |-> NoErr, consumed |-> FALSE]

\* a JavaScript truthiness test of a key
Truthy(key) == key # NULL /\ key # UNDEFINED /\ key # ""

Throw(w, e) == IF w.err # NoErr THEN w ELSE [w EXCEPT !.err = e]

(* ---------------------------------------------------------------- focus *)

FocusError == "FocusError"

\* whether el can take the focus: it is in the document, displayed and enabled
Focusable(w, el) ==
    /\ w.doc.elementInDoc /\ w.doc.elementShown
    /\ el.el = "tabCatcher" => w.dialog.tabCatcherEl_
    /\ el.el = "button" => /\ el.i \in 1..Len(w.doc.buttons)
                           /\ ~w.doc.buttons[el.i].disabled

\* element.focus(): moves the focus when the element can take it; otherwise
\* nothing happens, except that IE throws ("Can't move focus to the control
\* because it is invisible, not enabled, or of a type that does not accept
\* the focus")
Focus(w, el) ==
    IF w.err # NoErr THEN w ELSE
    IF el = Body \/ Focusable(w, el) THEN [w EXCEPT !.doc.activeElement = el]
    ELSE IF w.doc.userAgent = "IE" THEN Throw(w, FocusError)
    ELSE w

\* the user agent, when the focused element is hidden or leaves the document:
\* the focus falls back to the body
FocusFixup(w) ==
    IF w.doc.activeElement # Body /\ ~Focusable(w, w.doc.activeElement)
    THEN [w EXCEPT !.doc.activeElement = Body]
    ELSE w

(* ------------------------------------------- goog.ui.Dialog.ButtonSet *)

\* set gone wrong: a false flag takes the role away from the key that has it
ButtonSet_set_ClearsFlags(w, key, caption, opt_isDefault, opt_isCancel) ==
    IF w.err # NoErr THEN w ELSE
    [w EXCEPT
       !.buttonSet.map = MapSet(@, key, caption),
       !.buttonSet.defaultButton_ =
           IF opt_isDefault THEN key ELSE IF @ = key THEN NULL ELSE @,
       !.buttonSet.cancelButton_ =
           IF opt_isCancel THEN key ELSE IF @ = key THEN NULL ELSE @]

ButtonSet_set(w, key, caption, opt_isDefault, opt_isCancel) ==
    IF w.err # NoErr THEN w ELSE
    [w EXCEPT
       !.buttonSet.map = MapSet(@, key, caption),
       !.buttonSet.defaultButton_ = IF opt_isDefault THEN key ELSE @,
       !.buttonSet.cancelButton_ = IF opt_isCancel THEN key ELSE @]

\* render() gone wrong: the default button is moved to the front
RenderedButtons_DefaultFirst(bs) ==
    LET all == [i \in 1..Len(bs.map) |->
                  Button(bs.map[i].key, bs.map[i].key = bs.defaultButton_)]
    IN  SelectSeq(all, LAMBDA b : b.className # "")
        \o SelectSeq(all, LAMBDA b : b.className = "")

\* the button elements render() puts into the container, in forEach order
RenderedButtons(bs) ==
    [i \in 1..Len(bs.map) |-> Button(bs.map[i].key, bs.map[i].key = bs.defaultButton_)]

\* the container's innerHTML is rewritten: a focused button is gone
ButtonsReplaced(w) ==
    IF w.doc.activeElement.el = "button"
    THEN [w EXCEPT !.doc.activeElement = Body]
    ELSE w

\* render() gone wrong: the container is not emptied first
ButtonSet_render_NoClear(w) ==
    IF w.err # NoErr THEN w ELSE
    IF w.buttonSet.element_
    THEN [w EXCEPT !.doc.buttons = @ \o RenderedButtons(w.buttonSet)]
    ELSE w

ButtonSet_render(w) ==
    IF w.err # NoErr THEN w ELSE
    IF w.buttonSet.element_
    THEN IF w.buttonSet.attachedTo = OtherContainer
         THEN [w EXCEPT !.doc.otherButtons = RenderedButtons(w.buttonSet)]
         ELSE ButtonsReplaced([w EXCEPT !.doc.buttons = RenderedButtons(w.buttonSet)])
    ELSE w

\* attachToElement(el) with el the button container of the dialog at hand
ButtonSet_attachToElement(w) ==
    IF w.err # NoErr THEN w ELSE
    ButtonSet_render([w EXCEPT !.buttonSet.element_ = TRUE,
                               !.buttonSet.attachedTo = OwnContainer])

\* attachToElement(el) with el the button container of another dialog
ButtonSet_attachToOther(w) ==
    IF w.err # NoErr THEN w ELSE
    ButtonSet_render([w EXCEPT !.buttonSet.element_ = TRUE,
                               !.buttonSet.attachedTo = OtherContainer])

\* decorate(element), the loop over the container's button elements from the
\* i-th on: a button with a name or an id is set under that key, as the default
\* when it is the first button, as the cancel button when its name is 'cancel'
RECURSIVE ButtonSet_decorateFrom(_, _)
ButtonSet_decorateFrom(w, i) ==
    IF w.err # NoErr \/ i > Len(w.doc.buttons) THEN w ELSE
    LET button == w.doc.buttons[i]
        key == IF Truthy(button.name) THEN button.name ELSE button.id
        isDefault == i = 1
        isCancel == button.name = DefaultButtonKeys.CANCEL
        w1 == IF Truthy(key)
              THEN LET w0 == ButtonSet_set(w, key, "text", isDefault, isCancel)
                   IN  IF isDefault
                       THEN [w0 EXCEPT !.doc.buttons[i].className =
                                          "goog-buttonset-default"]
                       ELSE w0
              ELSE w
    IN  ButtonSet_decorateFrom(w1, i + 1)

\* decorate gone wrong: the cancel key is cleared before the buttons are read
ButtonSet_decorate_ClearsCancel(w) ==
    IF w.err # NoErr THEN w ELSE
    ButtonSet_decorateFrom([w EXCEPT !.buttonSet.element_ = TRUE,
                                     !.buttonSet.attachedTo = OwnContainer,
                                     !.buttonSet.cancelButton_ = NULL], 1)

\* decorate(element) on a container element holding the buttons of w.doc
ButtonSet_decorate(w) ==
    IF w.err # NoErr THEN w ELSE
    ButtonSet_decorateFrom([w EXCEPT !.buttonSet.element_ = TRUE,
                                     !.buttonSet.attachedTo = OwnContainer], 1)

\* a <button> of an element given to decorate: its name and id attributes
ButtonMarkup(name, id) ==
    [name |-> name, id |-> id, disabled |-> FALSE, className |-> ""]

\* what decorate is given: null or a node that is not an element, or a
\* container element with its <button> descendants in document order
NoElement == [isElement |-> FALSE, buttons |-> << >>]

Container(buttons) == [isElement |-> TRUE, buttons |-> buttons]

\* decorate(element): nothing happens without an element; otherwise the
\* element becomes the button set's container and its buttons are read
ButtonSet_decorateElement(w, element) ==
    IF w.err # NoErr THEN w ELSE
    IF ~element.isElement THEN w ELSE
    ButtonSet_decorate([w EXCEPT !.doc.buttons = element.buttons])

ButtonSet_setDefault(w, key) ==
    IF w.err # NoErr THEN w ELSE [w EXCEPT !.buttonSet.defaultButton_ = key]

ButtonSet_setCancel(w, key) ==
    IF w.err # NoErr THEN w ELSE [w EXCEPT !.buttonSet.cancelButton_ = key]

ButtonSet_getDefault(w) == w.buttonSet.defaultButton_

ButtonSet_getCancel(w) == w.buttonSet.cancelButton_

ButtonSet_get(w, key) == MapGet(w.buttonSet.map, key)

\* inherited goog.structs.Map.prototype.remove
ButtonSet_remove(w, key) ==
    IF w.err # NoErr THEN w ELSE [w EXCEPT !.buttonSet.map = MapRemove(@, key)]

\* getAllButtons: the buttons of the container element_, or a TypeError when
\* element_ is null
ButtonSet_getAllButtons(w) ==
    IF ~w.buttonSet.element_ THEN << >>
    ELSE IF w.buttonSet.attachedTo = OtherContainer THEN w.doc.otherButtons
    ELSE w.doc.buttons

\* getButton: index of the first button whose name is key, 0 for null
ButtonSet_getButton(w, key) ==
    LET buttons == ButtonSet_getAllButtons(w)
        hits == {i \in 1..Len(buttons) : buttons[i].name = key \/ buttons[i].id = key}
    IN  IF hits = {} THEN 0 ELSE CHOOSE i \in hits : \A j \in hits : i <= j

(* ------------------------------------- goog.ui.Component, EventHandler *)

\* getHandler().listen(src, type, fn): goog.events.listen registers a
\* listener once however often it is asked to
Listen(w, l) ==
    IF w.err # NoErr THEN w ELSE
    [w EXCEPT !.listeners = @ \cup {l},
              !.dialog.relistened = @ \/ l \in w.listeners]

\* getHandler().unlisten(src, type, fn)
Unlisten(w, l) ==
    IF w.err # NoErr THEN w ELSE [w EXCEPT !.listeners = @ \ {l}]

\* dispatchEvent of a goog.ui.Dialog.Event; prevented is the listeners' answer
\* (TRUE when one of them cancelled the event)
DispatchSelect(w, key, caption, prevented) ==
    IF w.err # NoErr THEN w ELSE
    [w EXCEPT !.events = Append(@,
        [type |-> SELECT, key |-> key, caption |-> caption,
         visible |-> w.dialog.visible_, prevented |-> prevented])]

\* dispatchEvent(goog.ui.Dialog.EventType.AFTER_HIDE)
DispatchAfterHide(w) ==
    IF w.err # NoErr THEN w ELSE
    [w EXCEPT !.events = Append(@,
        [type |-> AFTER_HIDE, key |-> NULL, caption |-> NULL,
         visible |-> w.dialog.visible_, prevented |-> FALSE])]

\* goog.ui.Component.prototype.isInDocument
isInDocument(w) == w.dialog.inDocument_

\* goog.ui.Component.prototype.getElement: TRUE when the root element exists
getElement(w) == w.dialog.element_

\* goog.ui.Component.prototype.render, after the checks Dialog.render repeats:
\* appends the root element to the parent; enterDocument is called by the caller
Component_render(w) ==
    IF w.err # NoErr THEN w ELSE [w EXCEPT !.doc.elementInDoc = TRUE]

\* goog.ui.Component.prototype.enterDocument
Component_enterDocument(w) ==
    IF w.err # NoErr THEN w ELSE [w EXCEPT !.dialog.inDocument_ = TRUE]

\* goog.ui.Component.prototype.exitDocument: removes every listener of the
\* component's handler and leaves the document
Component_exitDocument(w) ==
    IF w.err # NoErr THEN w ELSE
    [w EXCEPT !.listeners = {}, !.dialog.inDocument_ = FALSE]

\* the tail of goog.ui.Component.prototype.disposeInternal, after its call of
\* exitDocument: disposes the handler, removes the root element from the
\* document unless it was decorated, nulls it
Component_disposeTail(w) ==
    IF w.err # NoErr THEN w ELSE
    FocusFixup([w EXCEPT !.listeners = {},
                         !.doc.elementInDoc = IF w.dialog.wasDecorated_ THEN @ ELSE FALSE,
                         !.dialog.element_ = FALSE])

(* ------------------------------------------------------- goog.ui.Dialog *)

getButtonSet(w) == w.dialog.buttons_

\* manageBackgroundDom_ gone wrong: a mask that is no longer wanted is kept
manageBackgroundDom_KeepsMasks(w) ==
    IF w.err # NoErr THEN w ELSE
    LET d == w.dialog
        w1 == IF d.useIframeMask_ /\ d.modal_ /\ ~d.bgIframeEl_
              THEN [w EXCEPT !.dialog.bgIframeEl_ = TRUE,
                             !.doc.bgIframeInDoc = FALSE,
                             !.doc.bgIframeShown = FALSE]
              ELSE w
    IN  IF d.modal_ /\ ~d.bgEl_
        THEN [w1 EXCEPT !.dialog.bgEl_ = TRUE,
                        !.doc.bgInDoc = FALSE, !.doc.bgShown = FALSE]
        ELSE w1

manageBackgroundDom_(w) ==
    IF w.err # NoErr THEN w ELSE
    LET d == w.dialog
        w1 == IF d.useIframeMask_ /\ d.modal_ /\ ~d.bgIframeEl_
              THEN [w EXCEPT !.dialog.bgIframeEl_ = TRUE,
                             !.doc.bgIframeInDoc = FALSE,
                             !.doc.bgIframeShown = FALSE]
              ELSE IF (~d.useIframeMask_ \/ ~d.modal_) /\ d.bgIframeEl_
              THEN [w EXCEPT !.dialog.bgIframeEl_ = FALSE,
                             !.doc.bgIframeInDoc = FALSE,
                             !.doc.bgIframeShown = FALSE]
              ELSE w
    IN  IF d.modal_ /\ ~d.bgEl_
        THEN [w1 EXCEPT !.dialog.bgEl_ = TRUE,
                        !.doc.bgInDoc = FALSE, !.doc.bgShown = FALSE]
        ELSE IF ~d.modal_ /\ d.bgEl_
        THEN [w1 EXCEPT !.dialog.bgEl_ = FALSE,
                        !.doc.bgInDoc = FALSE, !.doc.bgShown = FALSE]
        ELSE w1

createDom(w) ==
    IF w.err # NoErr THEN w ELSE
    LET w1 == manageBackgroundDom_(w)
        w2 == [w1 EXCEPT !.dialog.element_ = TRUE,
                         !.dialog.titleEl_ = TRUE,
                         !.dialog.titleTextEl_ = TRUE,
                         !.dialog.titleCloseEl_ = TRUE,
                         !.dialog.contentEl_ = TRUE,
                         !.dialog.buttonEl_ = TRUE,
                         !.dialog.tabCatcherEl_ = TRUE,
                         !.doc.buttons = << >>,
                         !.doc.elementShown = FALSE]
    IN  IF getButtonSet(w2) # NULL THEN ButtonSet_attachToElement(w2) ELSE w2

renderBackground_(w) ==
    IF w.err # NoErr THEN w ELSE
    [w EXCEPT !.doc.bgIframeInDoc = IF w.dialog.bgIframeEl_ THEN TRUE ELSE @,
              !.doc.bgInDoc = IF w.dialog.bgEl_ THEN TRUE ELSE @]

createDraggableTitleDom_(w) ==
    IF w.err # NoErr THEN w ELSE [w EXCEPT !.dialog.dragger_ = TRUE]

enterDocument(w) ==
    IF w.err # NoErr THEN w ELSE
    LET w1 == Component_enterDocument(w)
        w2 == IF w1.dialog.draggable_ /\ ~w1.dialog.dragger_
              THEN createDraggableTitleDom_(w1) ELSE w1
    IN  Listen(Listen(w2, L_TITLE_CLOSE), L_FOCUSIN)

\* render gone wrong: a dialog in the document is rendered again
render_Again(w) ==
    IF w.err # NoErr THEN w ELSE
    LET w1 == IF ~getElement(w) THEN createDom(w) ELSE w
    IN  enterDocument(Component_render(renderBackground_(w1)))

render(w) ==
    IF w.err # NoErr THEN w ELSE
    IF isInDocument(w) THEN Throw(w, ALREADY_RENDERED) ELSE
    LET w1 == IF ~getElement(w) THEN createDom(w) ELSE w
    IN  enterDocument(Component_render(renderBackground_(w1)))

renderBefore(w) == Throw(w, NOT_SUPPORTED)

resizeBackground_(w) ==
    IF w.err # NoErr THEN w ELSE
    LET w1 == [w EXCEPT
                 !.doc.bgIframeShown = IF w.dialog.bgIframeEl_ THEN TRUE ELSE @,
                 !.doc.bgShown = IF w.dialog.bgEl_ THEN TRUE ELSE @]
    IN  IF w.dialog.draggable_ /\ ~w.dialog.dragger_
        THEN Throw(w1, TypeError)
        ELSE w1

\* the elements decorate() is given: a DIV with or without a button container,
\* and the names of the buttons in that container
PlainElement == [buttonContainer |-> FALSE, buttons |-> << >>]

ElementWithButtons(names) == [buttonContainer |-> TRUE, buttons |-> names]

\* decorateInternal(element): title, content and button container are found
\* or created; no tab-catcher is looked for or created
decorateInternal(w, element) ==
    IF w.err # NoErr THEN w ELSE
    LET w1 == [w EXCEPT !.dialog.element_ = TRUE,
                        !.doc.elementInDoc = TRUE,
                        !.dialog.contentEl_ = TRUE,
                        !.dialog.titleEl_ = TRUE,
                        !.dialog.titleTextEl_ = TRUE,
                        !.dialog.titleCloseEl_ = TRUE,
                        !.dialog.buttonEl_ = TRUE]
        w2 == IF element.buttonContainer
              THEN ButtonSet_decorate(
                     [w1 EXCEPT !.dialog.buttons_ = "buttonSet",
                                !.buttonSet = NewButtonSet,
                                !.doc.buttons =
                                   [i \in 1..Len(element.buttons) |->
                                      [name |-> element.buttons[i], id |-> "",
                                       disabled |-> FALSE, className |-> ""]]])
              ELSE IF w1.dialog.buttons_ # NULL
              THEN ButtonSet_attachToElement(w1)
              ELSE w1
        w3 == renderBackground_(manageBackgroundDom_(w2))
    IN  IF w3.err # NoErr THEN w3 ELSE [w3 EXCEPT !.doc.elementShown = FALSE]

\* goog.ui.Component.prototype.decorate
decorate(w, element) ==
    IF w.err # NoErr THEN w ELSE
    IF isInDocument(w) THEN Throw(w, ALREADY_RENDERED) ELSE
    enterDocument(decorateInternal([w EXCEPT !.dialog.wasDecorated_ = TRUE], element))

\* the element accessors: each renders the dialog first if needed
getContentElement(w) ==
    IF w.err # NoErr THEN w ELSE
    IF ~w.dialog.contentEl_ THEN render(w) ELSE w

\* an accessor gone wrong: it renders whether or not the dialog is in the document
getTitleElement_Always(w) == render(w)

getTitleElement(w) ==
    IF w.err # NoErr THEN w ELSE
    IF ~isInDocument(w) THEN render(w) ELSE w

getTitleTextElement(w) ==
    IF w.err # NoErr THEN w ELSE
    IF ~isInDocument(w) THEN render(w) ELSE w

getTitleCloseElement(w) ==
    IF w.err # NoErr THEN w ELSE
    IF ~isInDocument(w) THEN render(w) ELSE w

getButtonElement(w) ==
    IF w.err # NoErr THEN w ELSE
    IF ~isInDocument(w) THEN render(w) ELSE w

getDialogElement(w) ==
    IF w.err # NoErr THEN w ELSE
    IF ~isInDocument(w) THEN render(w) ELSE w

getBackgroundElement(w) ==
    IF w.err # NoErr THEN w ELSE
    IF ~isInDocument(w) THEN render(w) ELSE w

\* reposition only moves the root element
reposition(w) == w

\* the show/hide of the masks and of the root element in setVisible
showElements(w, visible) ==
    IF w.err # NoErr THEN w ELSE
    FocusFixup(
      [w EXCEPT !.doc.bgIframeShown = IF w.dialog.bgIframeEl_ THEN visible ELSE @,
                !.doc.bgShown = IF w.dialog.bgEl_ THEN visible ELSE @,
                !.doc.elementShown = visible])

\* exitDocument after its call of setVisible(false): removes the dragger,
\* then the superclass method
exitDocumentTail(w) ==
    IF w.err # NoErr THEN w ELSE
    Component_exitDocument(
        IF w.dialog.dragger_ THEN [w EXCEPT !.dialog.dragger_ = FALSE] ELSE w)

\* disposeInternal after the superclass method's call of exitDocument
disposeInternalTail(w) ==
    IF w.err # NoErr THEN w ELSE
    LET w2 == Component_disposeTail(w)
    IN  [w2 EXCEPT !.dialog.disposals = @ + 1,
                   !.dialog.focusHandler_ = FALSE,
                   !.dialog.bgEl_ = FALSE,
                   !.doc.bgInDoc = FALSE,
                   !.dialog.bgIframeEl_ = FALSE,
                   !.doc.bgIframeInDoc = FALSE,
                   !.dialog.titleCloseEl_ = FALSE,
                   !.dialog.buttonEl_ = FALSE,
                   !.dialog.tabCatcherEl_ = FALSE]

\* dispose gone wrong: a dialog that is being disposed is disposed again
disposeOnHide_Again(w) ==
    IF w.err # NoErr THEN w ELSE
    LET w1 == [w EXCEPT !.dialog.disposed_ = TRUE]
    IN  disposeInternalTail(IF isInDocument(w1) THEN exitDocumentTail(w1) ELSE w1)

\* this.dispose() as setVisible(false) calls it: visible_ is already false,
\* so the exitDocument it reaches does not call setVisible again; a dialog
\* that is being disposed already (disposed_ set) is left alone
disposeOnHide(w) ==
    IF w.err # NoErr THEN w ELSE
    IF ~w.dialog.disposed_
    THEN LET w1 == [w EXCEPT !.dialog.disposed_ = TRUE]
         IN  disposeInternalTail(IF isInDocument(w1) THEN exitDocumentTail(w1) ELSE w1)
    ELSE w

\* setVisible gone wrong: the hide leaves the resize listener registered
setVisibleListen_KeepsResize(w, visible) ==
    IF w.err # NoErr THEN w ELSE
    IF visible
    THEN Listen(Listen(reposition(resizeBackground_(w)), L_KEYDOWN), L_RESIZE)
    ELSE Unlisten(w, L_KEYDOWN)

\* setVisible, the listening for keyboard and resize events
setVisibleListen(w, visible) ==
    IF w.err # NoErr THEN w ELSE
    IF visible
    THEN Listen(Listen(reposition(resizeBackground_(w)), L_KEYDOWN), L_RESIZE)
    ELSE Unlisten(Unlisten(w, L_KEYDOWN), L_RESIZE)

\* the focusing on show gone wrong: what button.focus() throws is not caught
setVisibleFocus_NoCatch(w) ==
    IF w.err # NoErr THEN w ELSE
    LET w1 == IF w.doc.userAgent = "GECKO" THEN Focus(w, Root) ELSE w
        defaultButton == IF getButtonSet(w1) # NULL THEN ButtonSet_getDefault(w1)
                         ELSE NULL
        hits == {i \in 1..Len(w1.doc.buttons) : w1.doc.buttons[i].name = defaultButton}
    IN  IF w1.err # NoErr \/ ~Truthy(defaultButton) \/ hits = {} THEN w1 ELSE
        LET button == CHOOSE i \in hits : \A j \in hits : i <= j
            w2 == IF w1.doc.userAgent \in {"WEBKIT", "OPERA"} THEN Focus(w1, Body)
                  ELSE w1
        IN  Focus(w2, ButtonEl(button))

\* setVisible, the focusing on show: on Gecko the root element first, then
\* the default button's element if there is one; what button.focus() throws
\* is swallowed
setVisibleFocus(w) ==
    IF w.err # NoErr THEN w ELSE
    LET w1 == IF w.doc.userAgent = "GECKO" THEN Focus(w, Root) ELSE w
        defaultButton == IF getButtonSet(w1) # NULL THEN ButtonSet_getDefault(w1)
                         ELSE NULL
        hits == {i \in 1..Len(w1.doc.buttons) : w1.doc.buttons[i].name = defaultButton}
    IN  IF w1.err # NoErr \/ ~Truthy(defaultButton) \/ hits = {} THEN w1 ELSE
        LET button == CHOOSE i \in hits : \A j \in hits : i <= j
            \* the temporary <input> is focused and removed again
            w2 == IF w1.doc.userAgent \in {"WEBKIT", "OPERA"} THEN Focus(w1, Body)
                  ELSE w1
            w3 == Focus(w2, ButtonEl(button))
        IN  IF w3.err # NoErr THEN [w3 EXCEPT !.err = NoErr] ELSE w3

\* setVisible gone wrong: the hide leaves the click listener registered
setVisibleFinish_KeepsClick(w, visible) ==
    IF w.err # NoErr THEN w ELSE
    IF ~visible
    THEN LET w5 == DispatchAfterHide(w)
         IN  IF w5.dialog.disposeOnHide_ THEN disposeOnHide(w5) ELSE w5
    ELSE Listen(w, L_BUTTON_CLICK)

\* setVisible gone wrong: the hide never disposes
setVisibleFinish_NeverDisposes(w, visible) ==
    IF w.err # NoErr THEN w ELSE
    IF ~visible
    THEN DispatchAfterHide(Unlisten(w, L_BUTTON_CLICK))
    ELSE Listen(w, L_BUTTON_CLICK)

\* setVisible, after visible_ is assigned: on hide the click listener goes,
\* AFTER_HIDE is dispatched and the dialog may be disposed; on show the click
\* listener is added
setVisibleFinish(w, visible) ==
    IF w.err # NoErr THEN w ELSE
    IF ~visible
    THEN LET w5 == DispatchAfterHide(Unlisten(w, L_BUTTON_CLICK))
         IN  IF w5.dialog.disposeOnHide_ THEN disposeOnHide(w5) ELSE w5
    ELSE Listen(w, L_BUTTON_CLICK)

\* setVisible gone wrong: the dialog is rendered before the visibility is compared
setVisible_RendersFirst(w, visible) ==
    IF w.err # NoErr THEN w ELSE
    LET w1 == IF ~isInDocument(w) THEN render(w) ELSE w
    IN  IF visible = w.dialog.visible_ THEN w1 ELSE
        LET w2 == showElements(setVisibleListen(w1, visible), visible)
            w3 == IF visible THEN setVisibleFocus(w2) ELSE w2
            w4 == IF w3.err # NoErr THEN w3 ELSE [w3 EXCEPT !.dialog.visible_ = visible]
        IN  setVisibleFinish(w4, visible)

setVisible(w, visible) ==
    IF w.err # NoErr THEN w ELSE
    IF visible = w.dialog.visible_ THEN w ELSE
    LET w1 == IF ~isInDocument(w) THEN render(w) ELSE w
        w2 == showElements(setVisibleListen(w1, visible), visible)
        w3 == IF visible THEN setVisibleFocus(w2) ELSE w2
        w4 == IF w3.err # NoErr THEN w3 ELSE [w3 EXCEPT !.dialog.visible_ = visible]
    IN  setVisibleFinish(w4, visible)

exitDocument(w) ==
    IF w.err # NoErr THEN w ELSE
    exitDocumentTail(IF w.dialog.visible_ THEN setVisible(w, FALSE) ELSE w)

disposeInternal(w) ==
    IF w.err # NoErr THEN w ELSE
    disposeInternalTail(IF isInDocument(w) THEN exitDocument(w) ELSE w)

\* goog.Disposable.prototype.dispose
dispose(w) ==
    IF w.err # NoErr THEN w ELSE
    IF ~w.dialog.disposed_
    THEN disposeInternal([w EXCEPT !.dialog.disposed_ = TRUE])
    ELSE w

setDisposeOnHide(w, b) ==
    IF w.err # NoErr THEN w ELSE [w EXCEPT !.dialog.disposeOnHide_ = b]

\* setDraggable gone wrong: only the flag is set
setDraggable_FlagOnly(w, draggable) ==
    IF w.err # NoErr THEN w ELSE [w EXCEPT !.dialog.draggable_ = draggable]

\* setDraggable: a dialog that has its element gets its dragger at once, a
\* dialog that is no longer draggable loses it
setDraggable(w, draggable) ==
    IF w.err # NoErr THEN w ELSE
    LET w1 == [w EXCEPT !.dialog.draggable_ = draggable]
    IN  IF w1.dialog.draggable_ /\ ~w1.dialog.dragger_ /\ getElement(w1)
        THEN createDraggableTitleDom_(w1)
        ELSE IF ~w1.dialog.draggable_ /\ w1.dialog.dragger_
        THEN [w1 EXCEPT !.dialog.dragger_ = FALSE]
        ELSE w1

setModal(w, modal) ==
    IF w.err # NoErr THEN w ELSE
    manageBackgroundDom_([w EXCEPT !.dialog.modal_ = modal])

setButtonSet(w, buttons) ==
    IF w.err # NoErr THEN w ELSE
    LET w1 == [w EXCEPT !.dialog.buttons_ = buttons]
    IN  IF w1.dialog.buttonEl_
        THEN IF buttons # NULL
             THEN ButtonSet_attachToElement(w1)
             ELSE ButtonsReplaced([w1 EXCEPT !.doc.buttons = << >>])
        ELSE w1

(* ------------------------------------------------------ event handlers *)

\* the elements an event can target
RootTarget ==
    [tagName |-> "DIV", name |-> "", disabled |-> FALSE, isRoot |-> TRUE, button |-> 0]

\* the i-th button element of the button container
ContainerButton(w, i) ==
    [tagName |-> "BUTTON", name |-> w.doc.buttons[i].name,
     disabled |-> w.doc.buttons[i].disabled, isRoot |-> FALSE, button |-> i]

\* an element of the content area (the content is arbitrary HTML)
ContentElement(tagName, name, disabled) ==
    [tagName |-> tagName, name |-> name, disabled |-> disabled,
     isRoot |-> FALSE, button |-> 0]

\* onTitleCloseClick_ gone wrong: without a cancel key the click does nothing
onTitleCloseClick_NeedsCancel(w, prevented) ==
    IF w.err # NoErr THEN w ELSE
    LET bs == getButtonSet(w)
        key == IF bs # NULL THEN ButtonSet_getCancel(w) ELSE NULL
    IN  IF Truthy(key)
        THEN LET w1 == DispatchSelect(w, key, ButtonSet_get(w, key), prevented)
             IN  IF ~prevented THEN setVisible(w1, FALSE) ELSE w1
        ELSE w

onTitleCloseClick_(w, prevented) ==
    IF w.err # NoErr THEN w ELSE
    LET bs == getButtonSet(w)
        key == IF bs # NULL THEN ButtonSet_getCancel(w) ELSE NULL
    IN  IF Truthy(key)
        THEN LET w1 == DispatchSelect(w, key, ButtonSet_get(w, key), prevented)
             IN  IF ~prevented THEN setVisible(w1, FALSE) ELSE w1
        ELSE setVisible(w, FALSE)

\* findParentButton_: the index of the button the click landed on or in, 0 for
\* null (the target is the container or something outside any button)
findParentButton_(w, target) == target.button

\* onButtonClick_ gone wrong: the dialog hides whatever dispatchEvent returns
onButtonClick_IgnoresCancel(w, target, prevented) ==
    IF w.err # NoErr THEN w ELSE
    LET button == findParentButton_(w, target)
    IN  IF button # 0 /\ ~w.doc.buttons[button].disabled
        THEN LET key == w.doc.buttons[button].name
             IN  IF getButtonSet(w) = NULL THEN Throw(w, TypeError) ELSE
                 setVisible(DispatchSelect(w, key, ButtonSet_get(w, key), prevented),
                            FALSE)
        ELSE w

\* onButtonClick_ gone wrong: a disabled button is activated too
onButtonClick_DisabledToo(w, target, prevented) ==
    IF w.err # NoErr THEN w ELSE
    LET button == findParentButton_(w, target)
    IN  IF button # 0
        THEN LET key == w.doc.buttons[button].name
             IN  IF getButtonSet(w) = NULL THEN Throw(w, TypeError) ELSE
                 LET w1 == DispatchSelect(w, key, ButtonSet_get(w, key), prevented)
                 IN  IF ~prevented THEN setVisible(w1, FALSE) ELSE w1
        ELSE w

onButtonClick_(w, target, prevented) ==
    IF w.err # NoErr THEN w ELSE
    LET button == findParentButton_(w, target)
    IN  IF button # 0 /\ ~w.doc.buttons[button].disabled
        THEN LET key == w.doc.buttons[button].name
             IN  IF getButtonSet(w) = NULL THEN Throw(w, TypeError) ELSE
                 LET w1 == DispatchSelect(w, key, ButtonSet_get(w, key), prevented)
                 IN  IF ~prevented THEN setVisible(w1, FALSE) ELSE w1
        ELSE w

\* the ESC branch gone wrong: the ENTER branch's test, TEXTAREA included
isSpecialFormElementEsc_Textarea(target) ==
    (target.tagName = "TEXTAREA" \/ target.tagName = "SELECT") /\ ~target.disabled

\* isSpecialFormElement of the ESC branch
isSpecialFormElementEsc(target) ==
    target.tagName = "SELECT" /\ ~target.disabled

\* isSpecialFormElement of the ENTER branch
isSpecialFormElementEnter(target) ==
    (target.tagName = "TEXTAREA" \/ target.tagName = "SELECT") /\ ~target.disabled

\* the ESC branch gone wrong: without a cancel key Escape does nothing
onKeyDownEsc_NoClose(w, target, prevented) ==
    LET buttonSet == getButtonSet(w)
        cancel == IF buttonSet # NULL THEN ButtonSet_getCancel(w) ELSE NULL
    IN  IF Truthy(cancel) /\ ~(target.tagName = "SELECT" /\ ~target.disabled)
        THEN [w |-> DispatchSelect(w, cancel, ButtonSet_get(w, cancel), prevented),
              close |-> ~prevented, hasHandler |-> TRUE]
        ELSE [w |-> w, close |-> FALSE, hasHandler |-> FALSE]

\* the ESC branch of onKeyDown_: [w, close, hasHandler]
onKeyDownEsc(w, target, prevented) ==
    LET buttonSet == getButtonSet(w)
        cancel == IF buttonSet # NULL THEN ButtonSet_getCancel(w) ELSE NULL
    IN  IF Truthy(cancel) /\ ~isSpecialFormElementEsc(target)
        THEN [w |-> DispatchSelect(w, cancel, ButtonSet_get(w, cancel), prevented),
              close |-> ~prevented, hasHandler |-> TRUE]
        ELSE IF ~isSpecialFormElementEsc(target)
        THEN [w |-> w, close |-> TRUE, hasHandler |-> FALSE]
        ELSE [w |-> w, close |-> FALSE, hasHandler |-> FALSE]

\* the key the ENTER branch of onKeyDown_ settles on: [key, err]
enterKey(w, target) ==
    LET buttonSet == getButtonSet(w)
    IN  IF target.tagName = "BUTTON"
        THEN [key |-> target.name, err |-> NoErr]
        ELSE IF buttonSet # NULL
        THEN LET defaultKey == ButtonSet_getDefault(w)
             IN  IF ~Truthy(defaultKey) THEN [key |-> NULL, err |-> NoErr]
                 ELSE IF ~w.buttonSet.element_ THEN [key |-> NULL, err |-> TypeError]
                 ELSE LET defaultButton == ButtonSet_getButton(w, defaultKey)
                      IN  IF defaultButton # 0
                             /\ ~ButtonSet_getAllButtons(w)[defaultButton].disabled
                             /\ ~isSpecialFormElementEnter(target)
                          THEN [key |-> defaultKey, err |-> NoErr]
                          ELSE [key |-> NULL, err |-> NoErr]
        ELSE [key |-> NULL, err |-> NoErr]

\* the ENTER branch of onKeyDown_: [w, close, hasHandler]
onKeyDownEnter(w, target, prevented) ==
    LET k == enterKey(w, target)
    IN  IF k.err # NoErr
        THEN [w |-> Throw(w, k.err), close |-> FALSE, hasHandler |-> FALSE]
        ELSE IF Truthy(k.key)
        THEN IF getButtonSet(w) = NULL
             THEN [w |-> Throw(w, TypeError), close |-> FALSE, hasHandler |-> TRUE]
             ELSE [w |-> DispatchSelect(w, k.key, String(ButtonSet_get(w, k.key)),
                                        prevented),
                   close |-> ~prevented, hasHandler |-> TRUE]
        ELSE [w |-> w, close |-> FALSE, hasHandler |-> FALSE]

\* onKeyDown_ gone wrong: Shift+Tab is swallowed whatever its target
onKeyDown_TabAnyTarget(w, e, prevented) ==
    IF w.err # NoErr THEN w ELSE
    LET r == IF e.keyCode = ESC THEN onKeyDownEsc(w, e.target, prevented)
             ELSE IF e.keyCode = ENTER THEN onKeyDownEnter(w, e.target, prevented)
             ELSE IF e.keyCode = TAB /\ e.shiftKey
             THEN [w |-> w, close |-> FALSE, hasHandler |-> TRUE]
             ELSE [w |-> w, close |-> FALSE, hasHandler |-> FALSE]
        w1 == IF r.w.err = NoErr /\ (r.close \/ r.hasHandler)
              THEN [r.w EXCEPT !.consumed = TRUE] ELSE r.w
    IN  IF r.close THEN setVisible(w1, FALSE) ELSE w1

\* onKeyDown_ gone wrong: the event is consumed only when the dialog closes
onKeyDown_ConsumesOnClose(w, e, prevented) ==
    IF w.err # NoErr THEN w ELSE
    LET r == IF e.keyCode = ESC THEN onKeyDownEsc(w, e.target, prevented)
             ELSE IF e.keyCode = ENTER THEN onKeyDownEnter(w, e.target, prevented)
             ELSE IF e.keyCode = TAB /\ e.shiftKey /\ e.target.isRoot
             THEN [w |-> w, close |-> FALSE, hasHandler |-> TRUE]
             ELSE [w |-> w, close |-> FALSE, hasHandler |-> FALSE]
        w1 == IF r.w.err = NoErr /\ r.close
              THEN [r.w EXCEPT !.consumed = TRUE] ELSE r.w
    IN  IF r.close THEN setVisible(w1, FALSE) ELSE w1

onKeyDown_(w, e, prevented) ==
    IF w.err # NoErr THEN w ELSE
    LET r == IF e.keyCode = ESC THEN onKeyDownEsc(w, e.target, prevented)
             ELSE IF e.keyCode = ENTER THEN onKeyDownEnter(w, e.target, prevented)
             ELSE IF e.keyCode = TAB /\ e.shiftKey /\ e.target.isRoot
             THEN [w |-> w, close |-> FALSE, hasHandler |-> TRUE]
             ELSE [w |-> w, close |-> FALSE, hasHandler |-> FALSE]
        w1 == IF r.w.err = NoErr /\ (r.close \/ r.hasHandler)
              THEN [r.w EXCEPT !.consumed = TRUE] ELSE r.w
    IN  IF r.close THEN setVisible(w1, FALSE) ELSE w1

\* onFocus_: the tab-catcher got the focus, focusElement_ is scheduled
onFocus_(w, target) ==
    IF w.err # NoErr THEN w ELSE
    IF w.dialog.tabCatcherEl_ /\ target = TabCatcher
    THEN [w EXCEPT !.doc.timers = @ + 1]
    ELSE w

\* focusElement_, the timer's callback
focusElement_(w) ==
    IF w.err # NoErr THEN w ELSE
    LET w1 == IF w.doc.userAgent = "IE" THEN Focus(w, Body) ELSE w
    IN  IF ~getElement(w1) THEN Throw(w1, TypeError) ELSE Focus(w1, Root)

onResize_(w) == resizeBackground_(w)

(* ---------------------------------------------------------------- state *)

VARIABLES
    dialog,      \* the goog.ui.Dialog instance's fields
    buttonSet,   \* the goog.ui.Dialog.ButtonSet instance's fields
    doc,         \* the DOM: the button container's buttons, what is attached/shown
    listeners,   \* the listeners registered through getHandler()
    events,      \* the events the last operation dispatched, in order
    err,         \* the exception the last operation threw, or NoErr
    consumed,    \* whether the last browser event was stopped and prevented
    last,        \* the last operation and its input
    hist         \* history: the show/hide in progress, the keys added so far

vars == <<dialog, buttonSet, doc, listeners, events, err, consumed, last, hist>>

\* the world an operation starts from
Cur == World(dialog, buttonSet, doc, listeners)

NoEvent == [keyCode |-> 0, shiftKey |-> FALSE, target |-> RootTarget]

\* an operation, its input, and what it started from; the input is kept next
\* to the operation's name, so that the inputs of two different operations
\* (a boolean, a key, an element) are never compared with each other
Op(name, arg, e) ==
    [op |-> name, arg |-> <<name, arg>>, e |-> e,
     pre |-> [visible |-> dialog.visible_, listeners |-> listeners]]

NoShow == [phase |-> "none", listeners |-> {}, rendered |-> FALSE]

\* the show/hide history after operation o turned world w into w2
NextShow(o, w, w2) ==
    IF o.op = "setVisible" /\ o.arg[2] = TRUE /\ ~w.dialog.visible_
    THEN [phase |-> "shown", listeners |-> w.listeners,
          rendered |-> w.dialog.inDocument_]
    ELSE IF o.op = "setVisible" /\ o.arg[2] = FALSE /\ hist.show.phase = "shown"
    THEN [hist.show EXCEPT !.phase = "hidden"]
    ELSE NoShow

\* the button-set history: keys in the order they were first added, whether a
\* set call has overwritten an existing key, and the number of removals
NextAdded(o) ==
    IF o.op = "ButtonSet.set" /\ ~(\E i \in 1..Len(hist.added) : hist.added[i] = o.arg[2].key)
    THEN Append(hist.added, o.arg[2].key)
    ELSE hist.added

NextOverwritten(o) ==
    IF o.op = "ButtonSet.set" /\ MapHas(buttonSet.map, o.arg[2].key)
    THEN TRUE
    ELSE hist.overwritten

NextRemovals(o) ==
    IF o.op = "ButtonSet.remove" THEN hist.removals + 1 ELSE hist.removals

\* operation o ends in world w2
Becomes(o, w2) ==
    /\ dialog' = w2.dialog
    /\ buttonSet' = w2.buttonSet
    /\ doc' = w2.doc
    /\ listeners' = w2.listeners
    /\ events' = w2.events
    /\ err' = w2.err
    /\ consumed' = w2.consumed
    /\ last' = o
    /\ hist' = [show |-> NextShow(o, Cur, w2),
                added |-> NextAdded(o),
                overwritten |-> NextOverwritten(o),
                removals |-> NextRemovals(o)]

Alive == ~dialog.disposed_

(* ----------------------------------------------------- dialog operations *)

InitAgent(useIframeMask, bs, userAgent) ==
    /\ dialog = NewDialog(useIframeMask)
    /\ buttonSet = bs
    /\ doc = [NewDoc EXCEPT !.userAgent = userAgent]
    /\ listeners = {}
    /\ events = << >>
    /\ err = NoErr
    /\ consumed = FALSE
    /\ last = [op |-> "new", arg |-> <<"new", NULL>>, e |-> NoEvent,
               pre |-> [visible |-> FALSE, listeners |-> {}]]
    /\ hist = [show |-> NoShow, added |-> MapKeys(bs.map), overwritten |-> FALSE,
               removals |-> 0]

InitWorld(useIframeMask, bs) == InitAgent(useIframeMask, bs, NoAgent)

\* new goog.ui.Dialog(opt_class, opt_useIframeMask) with the default button set
Init == \E useIframeMask \in BOOLEAN : InitWorld(useIframeMask, OK_CANCEL)

SetVisible(visible) ==
    /\ Alive
    /\ Becomes(Op("setVisible", visible, NoEvent), setVisible(Cur, visible))

Render ==
    /\ Alive
    /\ Becomes(Op("render", NULL, NoEvent), render(Cur))

RenderBefore ==
    Becomes(Op("renderBefore", NULL, NoEvent), renderBefore(Cur))

Dispose ==
    /\ Alive
    /\ Becomes(Op("dispose", NULL, NoEvent), dispose(Cur))

ExitDocument ==
    /\ Alive
    /\ isInDocument(Cur)
    /\ Becomes(Op("exitDocument", NULL, NoEvent), exitDocument(Cur))

SetDisposeOnHide(b) ==
    /\ Alive
    /\ Becomes(Op("setDisposeOnHide", b, NoEvent), setDisposeOnHide(Cur, b))

SetButtonSet(buttons) ==
    /\ Alive
    /\ Becomes(Op("setButtonSet", buttons, NoEvent), setButtonSet(Cur, buttons))

\* the keydown events delivered to the dialog: on the root element, on a
\* button of the container, on elements of the content area
KeyTargets ==
    {RootTarget}
    \cup {ContainerButton(Cur, i) : i \in 1..Len(doc.buttons)}
    \cup {ContentElement("BUTTON", "help", FALSE),
          ContentElement("TEXTAREA", "", FALSE),
          ContentElement("SELECT", "", FALSE),
          ContentElement("SELECT", "", TRUE)}

KeyEvents ==
    {[keyCode |-> k, shiftKey |-> FALSE, target |-> t] : k \in {ESC, ENTER}, t \in KeyTargets}
    \cup {[keyCode |-> TAB, shiftKey |-> sh, target |-> t] :
             sh \in BOOLEAN, t \in {RootTarget, ContentElement("TEXTAREA", "", FALSE)}}
    \cup {[keyCode |-> 65, shiftKey |-> FALSE, target |-> RootTarget]}

KeyDown(e, prevented) ==
    /\ Alive
    /\ L_KEYDOWN \in listeners
    /\ Becomes(Op("onKeyDown_", NULL, e), onKeyDown_(Cur, e, prevented))

\* the clicks delivered to the button container: on a button, on an element
\* inside a button, on the container outside any button
ClickTargets ==
    {ContainerButton(Cur, i) : i \in 1..Len(doc.buttons)}
    \cup {[tagName |-> "SPAN", name |-> "", disabled |-> FALSE, isRoot |-> FALSE,
           button |-> i] : i \in 1..Len(doc.buttons)}
    \cup {[tagName |-> "DIV", name |-> "", disabled |-> FALSE, isRoot |-> FALSE,
           button |-> 0]}

ButtonClick(target, prevented) ==
    /\ Alive
    /\ L_BUTTON_CLICK \in listeners
    /\ Becomes(Op("onButtonClick_", NULL, [NoEvent EXCEPT !.target = target]),
               onButtonClick_(Cur, target, prevented))

TitleCloseClick(prevented) ==
    /\ Alive
    /\ L_TITLE_CLOSE \in listeners
    /\ Becomes(Op("onTitleCloseClick_", NULL, NoEvent),
               onTitleCloseClick_(Cur, prevented))

Resize ==
    /\ Alive
    /\ L_RESIZE \in listeners
    /\ Becomes(Op("onResize_", NULL, NoEvent), onResize_(Cur))

\* the application sets button.disabled on a button of the container
SetDisabled(i, b) ==
    /\ Alive
    /\ Becomes(Op("button.disabled", <<i, b>>, NoEvent),
               [Cur EXCEPT !.doc.buttons[i].disabled = b])

SetDefault(key) ==
    /\ Alive
    /\ Becomes(Op("ButtonSet.setDefault", key, NoEvent), ButtonSet_setDefault(Cur, key))

SetCancel(key) ==
    /\ Alive
    /\ Becomes(Op("ButtonSet.setCancel", key, NoEvent), ButtonSet_setCancel(Cur, key))

Next ==
    \/ \E v \in BOOLEAN : SetVisible(v)
    \/ Render
    \/ RenderBefore
    \/ Dispose
    \/ ExitDocument
    \/ \E b \in BOOLEAN : SetDisposeOnHide(b)
    \/ \E b \in {NULL, "buttonSet"} : SetButtonSet(b)
    \/ \E e \in KeyEvents, p \in BOOLEAN : KeyDown(e, p)
    \/ \E t \in ClickTargets, p \in BOOLEAN : ButtonClick(t, p)
    \/ \E p \in BOOLEAN : TitleCloseClick(p)
    \/ Resize
    \/ \E i \in 1..Len(doc.buttons), b \in BOOLEAN : SetDisabled(i, b)
    \/ \E k \in DefaultKeyInputs : SetDefault(k)
    \/ \E k \in CancelKeyInputs : SetCancel(k)

Spec == Init /\ [][Next]_vars

(* ------------------------------------------------- button set operations *)

\* new goog.ui.Dialog.ButtonSet(), on its own
InitBS == InitWorld(FALSE, NewButtonSet)

BsSet(key, caption, isDefault, isCancel) ==
    Becomes(Op("ButtonSet.set",
               [key |-> key, caption |-> caption,
                isDefault |-> isDefault, isCancel |-> isCancel], NoEvent),
            ButtonSet_set(Cur, key, caption, isDefault, isCancel))

BsRemove(key) ==
    /\ hist.removals < MaxRemovals
    /\ Becomes(Op("ButtonSet.remove", key, NoEvent), ButtonSet_remove(Cur, key))

BsAttachToElement ==
    Becomes(Op("ButtonSet.attachToElement", NULL, NoEvent), ButtonSet_attachToElement(Cur))

BsRender ==
    Becomes(Op("ButtonSet.render", NULL, NoEvent), ButtonSet_render(Cur))

NextBS ==
    \/ \E k \in BsKeys, c \in Captions, d \in BOOLEAN, x \in BOOLEAN : BsSet(k, c, d, x)
    \/ \E k \in BsKeys : BsRemove(k)
    \/ BsAttachToElement
    \/ BsRender
    \/ \E k \in BsKeys \cup {NULL} : SetDefault(k)
    \/ \E k \in BsKeys \cup {NULL} : SetCancel(k)

SpecBS == InitBS /\ [][NextBS]_vars

(* ------------------------------------------------- button set decoration *)

\* the <button> elements found in a decorated container: named after a
\* standard key, carrying only an id, or carrying neither
MarkupButtons ==
    {ButtonMarkup(DefaultButtonKeys.OK, ""),
     ButtonMarkup(DefaultButtonKeys.CANCEL, ""),
     ButtonMarkup("", DefaultButtonKeys.CANCEL),
     ButtonMarkup("", "")}

\* the elements given to ButtonSet.decorate: none, and the containers of up
\* to two buttons
MarkupElements ==
    {NoElement, Container(<< >>)}
    \cup {Container(<<a>>) : a \in MarkupButtons}
    \cup {Container(<<a, b>>) : a \in MarkupButtons, b \in MarkupButtons}

BsDecorate(element) ==
    Becomes(Op("ButtonSet.decorate", element, NoEvent),
            ButtonSet_decorateElement(Cur, element))

\* a button set built by decorate, by set and by setDefault / setCancel
NextDecorate ==
    \/ \E el \in MarkupElements : BsDecorate(el)
    \/ \E k \in BsKeys, d \in BOOLEAN, x \in BOOLEAN : BsSet(k, "text", d, x)
    \/ \E k \in BsKeys \cup {NULL} : SetDefault(k)
    \/ \E k \in BsKeys \cup {NULL} : SetCancel(k)

SpecDecorate == InitBS /\ [][NextDecorate]_vars

(* ------------------------------------------------- focus and decoration *)

\* new goog.ui.Dialog() on any user agent
InitFocus == \E userAgent \in UserAgents : InitAgent(FALSE, OK_CANCEL, userAgent)

\* the elements given to decorate()
DecorateElements ==
    {PlainElement,
     ElementWithButtons(<<DefaultButtonKeys.OK, DefaultButtonKeys.CANCEL>>)}

\* dialog.decorate(element) on a dialog that has no DOM yet
Decorate(element) ==
    /\ Alive
    /\ ~dialog.element_
    /\ Becomes(Op("decorate", element, NoEvent), decorate(Cur, element))

\* the element that gets the focus when the user tabs forward from the last
\* tabbable element of the dialog: its tab-catcher, or whatever follows the
\* dialog in the document
AfterLastElement == IF dialog.tabCatcherEl_ THEN TabCatcher ELSE Body

\* the user tabs past the last element of the visible dialog: the focus moves
\* on and the document's focus handler reports it to onFocus_
TabPastEnd ==
    /\ dialog.visible_
    /\ doc.timers < MaxTimers
    /\ LET w1 == [Cur EXCEPT !.doc.activeElement = AfterLastElement]
       IN  Becomes(Op("onFocus_", AfterLastElement, NoEvent),
                   IF L_FOCUSIN \in listeners THEN onFocus_(w1, AfterLastElement)
                   ELSE w1)

\* a timer set by goog.Timer.callOnce(this.focusElement_, 0, this) fires
TimerFire ==
    /\ doc.timers > 0
    /\ Becomes(Op("focusElement_", NULL, NoEvent),
               focusElement_([Cur EXCEPT !.doc.timers = @ - 1]))

NextFocus ==
    \/ \E v \in BOOLEAN : SetVisible(v)
    \/ \E el \in DecorateElements : Decorate(el)
    \/ \E b \in {NULL, "buttonSet"} : SetButtonSet(b)
    \/ \E k \in DefaultKeyInputs : SetDefault(k)
    \/ \E i \in 1..Len(doc.buttons), b \in BOOLEAN : SetDisabled(i, b)
    \/ Dispose
    \/ TabPastEnd
    \/ TimerFire

SpecFocus == InitFocus /\ [][NextFocus]_vars

\* the timer fires once it is set
SpecFocusLive == SpecFocus /\ WF_vars(TimerFire)

(* ----------------------------------------------------- element accessors *)

Accessors ==
    {"getContentElement", "getTitleElement", "getTitleTextElement",
     "getTitleCloseElement", "getButtonElement", "getDialogElement",
     "getBackgroundElement"}

Accessor(name) ==
    /\ Alive
    /\ Becomes(Op(name, NULL, NoEvent),
               CASE name = "getContentElement" -> getContentElement(Cur)
                 [] name = "getTitleElement" -> getTitleElement(Cur)
                 [] name = "getTitleTextElement" -> getTitleTextElement(Cur)
                 [] name = "getTitleCloseElement" -> getTitleCloseElement(Cur)
                 [] name = "getButtonElement" -> getButtonElement(Cur)
                 [] name = "getDialogElement" -> getDialogElement(Cur)
                 [] name = "getBackgroundElement" -> getBackgroundElement(Cur))

\* the dialog's life cycle with the accessors
NextAccess ==
    \/ \E name \in Accessors : Accessor(name)
    \/ \E v \in BOOLEAN : SetVisible(v)
    \/ Render
    \/ ExitDocument
    \/ Dispose
    \/ \E b \in BOOLEAN : SetDisposeOnHide(b)
    \/ \E b \in {NULL, "buttonSet"} : SetButtonSet(b)

SpecAccess == Init /\ [][NextAccess]_vars

(* ------------------------------------------------ modal and modeless *)

\* dialog.setModal(modal), in any state of the dialog
SetModal(modal) ==
    Becomes(Op("setModal", modal, NoEvent), setModal(Cur, modal))

\* the dialog's life cycle with changes of its modal property
NextModal ==
    \/ \E m \in BOOLEAN : SetModal(m)
    \/ \E v \in BOOLEAN : SetVisible(v)
    \/ Render
    \/ \E el \in DecorateElements : Decorate(el)
    \/ ExitDocument
    \/ Dispose
    \/ \E b \in BOOLEAN : SetDisposeOnHide(b)
    \/ Resize

SpecModal == Init /\ [][NextModal]_vars

(* ---------------------------------------------------------- dragging *)

\* dialog.setDraggable(draggable), in any state of the dialog
SetDraggable(draggable) ==
    Becomes(Op("setDraggable", draggable, NoEvent), setDraggable(Cur, draggable))

\* the dialog's life cycle with changes of its draggable property
NextDrag ==
    \/ \E b \in BOOLEAN : SetDraggable(b)
    \/ \E v \in BOOLEAN : SetVisible(v)
    \/ Render
    \/ \E el \in DecorateElements : Decorate(el)
    \/ ExitDocument
    \/ Dispose
    \/ \E b \in BOOLEAN : SetDisposeOnHide(b)
    \/ Resize

SpecDrag == Init /\ [][NextDrag]_vars

(* ------------------------------------------- captions of the button set *)

\* Enter on a focused button of the container
EnterOnButton(i) ==
    [keyCode |-> ENTER, shiftKey |-> FALSE, target |-> ContainerButton(Cur, i)]

\* a dialog whose button set is given string and DOM-node captions, and whose
\* buttons are activated by click and by Enter
NextCaption ==
    \/ \E k \in BsKeys, c \in Captions : BsSet(k, c, FALSE, FALSE)
    \/ \E v \in BOOLEAN : SetVisible(v)
    \/ \E i \in 1..Len(doc.buttons), b \in BOOLEAN : SetDisabled(i, b)
    \/ \E i \in 1..Len(doc.buttons), p \in BOOLEAN : KeyDown(EnterOnButton(i), p)
    \/ \E t \in ClickTargets, p \in BOOLEAN : ButtonClick(t, p)

SpecCaption == Init /\ [][NextCaption]_vars

(* ------------------------------------------ two dialogs, one button set *)

\* another dialog constructed with the default button set (the one object
\* goog.ui.Dialog.ButtonSet.OK_CANCEL) is rendered: its createDom attaches the
\* button set to its own button container
OtherRender ==
    /\ dialog.buttons_ # NULL
    /\ Becomes(Op("other.render", NULL, NoEvent), ButtonSet_attachToOther(Cur))

\* the application sets button.disabled on a button of the other dialog
OtherSetDisabled(i, b) ==
    Becomes(Op("other.button.disabled", <<i, b>>, NoEvent),
            [Cur EXCEPT !.doc.otherButtons[i].disabled = b])

\* Enter and Escape on the root element and on the dialog's own buttons
SharedKeyEvents ==
    {[keyCode |-> k, shiftKey |-> FALSE, target |-> t] :
        k \in {ESC, ENTER},
        t \in {RootTarget} \cup {ContainerButton(Cur, i) : i \in 1..Len(doc.buttons)}}

NextShared ==
    \/ \E v \in BOOLEAN : SetVisible(v)
    \/ Render
    \/ OtherRender
    \/ \E i \in 1..Len(doc.buttons), b \in BOOLEAN : SetDisabled(i, b)
    \/ \E i \in 1..Len(doc.otherButtons), b \in BOOLEAN : OtherSetDisabled(i, b)
    \/ \E e \in SharedKeyEvents, p \in BOOLEAN : KeyDown(e, p)
    \/ \E t \in ClickTargets, p \in BOOLEAN : ButtonClick(t, p)

SpecShared == Init /\ [][NextShared]_vars

(* ------------------------------------------------------------- properties *)

\* the select events, and the after-hide events, of the last operation
Selects == SelectSeq(events, LAMBDA ev : ev.type = SELECT)
AfterHides == SelectSeq(events, LAMBDA ev : ev.type = AFTER_HIDE)

\* the last operation was a keydown of key k delivered to a visible dialog
KeyDownWas(k) ==
    last.op = "onKeyDown_" /\ last.pre.visible /\ last.e.keyCode = k

\* The event handlers change neither the button set nor the container's
\* buttons, so after a handler these are what the handler saw.
HasCancelKey == dialog.buttons_ # NULL /\ Truthy(buttonSet.cancelButton_)

EnabledSelect(t) == t.tagName = "SELECT" /\ ~t.disabled

\* the rendered default button: its index in the container, 0 when the button
\* set is missing, has no default key or has no button of that name
DefaultButtonIndex ==
    IF dialog.buttons_ # NULL /\ Truthy(buttonSet.defaultButton_) /\ buttonSet.element_
    THEN LET hits == {i \in 1..Len(doc.buttons) :
                        doc.buttons[i].name = buttonSet.defaultButton_}
         IN  IF hits = {} THEN 0 ELSE CHOOSE i \in hits : \A j \in hits : i <= j
    ELSE 0

\* C1 as stated: from any non-visible, non-disposed state, setVisible(true)
\* directly followed by setVisible(false) leaves the registered listeners
\* equal to those registered before the show.
C1_Original ==
    hist.show.phase = "hidden" => listeners = hist.show.listeners

\* C1, amended: for a dialog that is in the document and hidden, and does not
\* dispose on hide, setVisible(true) directly followed by setVisible(false)
\* leaves the registered listeners equal to those registered before the show.
C1_ShowHideRestores ==
    (hist.show.phase = "hidden" /\ hist.show.rendered /\ ~dialog.disposeOnHide_)
        => listeners = hist.show.listeners

C1_Witness ==
    /\ hist.show.phase = "hidden" /\ hist.show.rendered /\ ~dialog.disposeOnHide_
    /\ last.op = "setVisible" /\ last.pre.visible /\ ~dialog.visible_
    /\ last.pre.listeners =
         {L_TITLE_CLOSE, L_FOCUSIN, L_KEYDOWN, L_RESIZE, L_BUTTON_CLICK}
    /\ listeners = {L_TITLE_CLOSE, L_FOCUSIN}

\* C2 as stated: while the dialog is visible and its button set has a cancel
\* key, an Escape keydown dispatches exactly one select event, carrying the
\* cancel key, while the dialog is still visible.
C2_Original ==
    (KeyDownWas(ESC) /\ HasCancelKey)
        => /\ Len(Selects) = 1
           /\ Selects[1].key = buttonSet.cancelButton_
           /\ Selects[1].visible

\* C2, amended: while the dialog is visible and its button set has a cancel
\* key, an Escape keydown whose target is not an enabled SELECT dispatches
\* exactly one select event, carrying the cancel key and the caption mapped to
\* it, while the dialog is still visible.
C2_EscapeSelectsCancel ==
    (KeyDownWas(ESC) /\ HasCancelKey /\ ~EnabledSelect(last.e.target))
        => /\ Len(Selects) = 1
           /\ Selects[1].key = buttonSet.cancelButton_
           /\ Selects[1].caption = MapGet(buttonSet.map, buttonSet.cancelButton_)
           /\ Selects[1].visible
           /\ events[1].type = SELECT

C2_Witness ==
    /\ KeyDownWas(ESC) /\ HasCancelKey /\ last.e.target.tagName = "TEXTAREA"
    /\ Len(events) = 2
    /\ events[1].type = SELECT /\ events[1].key = DefaultButtonKeys.CANCEL
    /\ events[1].visible /\ ~events[1].prevented
    /\ events[2].type = AFTER_HIDE
    /\ ~dialog.visible_

\* C3 as stated: while the dialog is visible and its default button is
\* disabled, an Enter keydown on any target (the default button itself
\* included) dispatches no select event for the default key and, unless it
\* activated another button, leaves the dialog visible.
C3_Original ==
    (KeyDownWas(ENTER) /\ DefaultButtonIndex # 0
        /\ doc.buttons[DefaultButtonIndex].disabled)
        => /\ \A i \in 1..Len(Selects) : Selects[i].key # buttonSet.defaultButton_
           /\ (Selects = << >> => dialog.visible_)

\* the names of the buttons in the container, in document order
RenderedNames == [i \in 1..Len(doc.buttons) |-> doc.buttons[i].name]

\* C4: after any sequence of set calls followed by a render into an attached
\* container, the rendered buttons appear in the order in which their keys were
\* first added, whatever the default and cancel flags and whatever set calls
\* overwrote an existing key.
C4_RenderOrder ==
    (last.op \in {"ButtonSet.render", "ButtonSet.attachToElement"}
        /\ buttonSet.element_ /\ hist.removals = 0)
        => RenderedNames = hist.added

C4_Witness ==
    /\ last.op = "ButtonSet.render" /\ buttonSet.element_ /\ hist.removals = 0
    /\ hist.overwritten
    /\ Len(hist.added) = 2
    /\ buttonSet.defaultButton_ = hist.added[2]
    /\ buttonSet.cancelButton_ = hist.added[2]
    /\ RenderedNames = hist.added

\* C5 as stated: in every reachable state of a button set the default key and
\* the cancel key are each unset or a key of the mapping.
C5_Original ==
    /\ buttonSet.defaultButton_ = NULL \/ MapHas(buttonSet.map, buttonSet.defaultButton_)
    /\ buttonSet.cancelButton_ = NULL \/ MapHas(buttonSet.map, buttonSet.cancelButton_)

\* the last operation was a click on an enabled button of the container
ClickOnEnabled ==
    /\ last.op = "onButtonClick_"
    /\ last.e.target.button # 0
    /\ ~doc.buttons[last.e.target.button].disabled

CanBeShown ==
    LET w2 == setVisible(Cur, TRUE)
    IN  w2.err = NoErr /\ w2.dialog.visible_ /\ w2.doc.elementShown

\* the Hidden state: the dialog has its element, is not visible, not disposed
\* and can be shown again
Hidden ==
    ~dialog.visible_ /\ ~dialog.disposed_ /\ dialog.element_ /\ CanBeShown

\* C7 as stated: every transition from visible to not visible dispatches
\* exactly one after-hide event; with disposeOnHide set the dialog ends
\* disposed, otherwise it ends hidden, not disposed, and can be shown again.
C7_Original ==
    (last.pre.visible /\ ~dialog.visible_)
        => /\ Len(AfterHides) = 1
           /\ IF dialog.disposeOnHide_ THEN dialog.disposed_ ELSE Hidden

\* C7, amended: every transition from visible to not visible dispatches
\* exactly one after-hide event; when disposeOnHide is set, or the transition
\* is dispose() itself, the dialog ends disposed, otherwise it ends hidden, not
\* disposed, and can be shown again.
C7_HideOnce ==
    (last.pre.visible /\ ~dialog.visible_)
        => /\ Len(AfterHides) = 1
           /\ IF dialog.disposeOnHide_ \/ last.op = "dispose"
              THEN dialog.disposed_ /\ listeners = {}
              ELSE Hidden

C7_Witness ==
    /\ last.pre.visible /\ ~dialog.visible_
    /\ last.op = "onTitleCloseClick_"
    /\ dialog.disposeOnHide_ /\ dialog.disposed_
    /\ Len(AfterHides) = 1

\* C8 as stated: after dispose() every element reference of the dialog (root,
\* title, title text, title close, content, button container, tab catcher,
\* background mask, iframe mask) is null and the masks are out of the document.
C8_Original ==
    dialog.disposed_
        => /\ ~dialog.element_ /\ ~dialog.titleEl_ /\ ~dialog.titleTextEl_
           /\ ~dialog.titleCloseEl_ /\ ~dialog.contentEl_ /\ ~dialog.buttonEl_
           /\ ~dialog.tabCatcherEl_ /\ ~dialog.bgEl_ /\ ~dialog.bgIframeEl_
           /\ ~doc.bgInDoc /\ ~doc.bgIframeInDoc

\* C9 as stated: while the dialog is visible and there is no cancel key (no
\* button set, or a button set without one), an Escape keydown hides the
\* dialog, whatever its target, and dispatches no select event.
C9_Original ==
    (KeyDownWas(ESC) /\ ~HasCancelKey)
        => ~dialog.visible_ /\ Selects = << >>

\* C9, amended: while the dialog is visible and there is no cancel key, an
\* Escape keydown whose target is not an enabled SELECT hides the dialog and
\* dispatches no select event; on an enabled SELECT it does nothing.
C9_EscapeHides ==
    (KeyDownWas(ESC) /\ ~HasCancelKey)
        => IF EnabledSelect(last.e.target)
           THEN dialog.visible_ /\ events = << >> /\ ~consumed
           ELSE ~dialog.visible_ /\ Selects = << >> /\ Len(AfterHides) = 1

C9_Witness ==
    /\ KeyDownWas(ESC) /\ dialog.buttons_ = NULL
    /\ last.e.target.tagName = "TEXTAREA"
    /\ ~dialog.visible_
    /\ Len(events) = 1 /\ events[1].type = AFTER_HIDE

\* C10 as stated: while the dialog is visible, an Enter keydown whose target is
\* a button activates that button; on any other target it activates the
\* default button exactly when a default key is set, its button is rendered
\* and enabled, and the target is not an enabled TEXTAREA or SELECT; otherwise
\* it dispatches nothing and the dialog stays visible.
C10_Original ==
    KeyDownWas(ENTER)
        => LET target == last.e.target
           IN  IF target.tagName = "BUTTON"
               THEN Len(Selects) = 1 /\ Selects[1].key = target.name
               ELSE IF /\ DefaultButtonIndex # 0
                       /\ ~doc.buttons[DefaultButtonIndex].disabled
                       /\ ~isSpecialFormElementEnter(target)
               THEN Len(Selects) = 1 /\ Selects[1].key = buttonSet.defaultButton_
               ELSE events = << >> /\ dialog.visible_

\* C11: while the dialog is visible, a Shift+Tab keydown on the dialog root
\* element is consumed, dispatches no event and leaves the dialog visible;
\* Shift+Tab on any other target, and plain Tab, are not consumed.
C11_ShiftTabSwallowed ==
    KeyDownWas(TAB)
        => /\ consumed <=> (last.e.shiftKey /\ last.e.target.isRoot)
           /\ events = << >>
           /\ dialog.visible_
           /\ listeners = last.pre.listeners

C11_Witness ==
    /\ KeyDownWas(TAB) /\ last.e.shiftKey /\ last.e.target.isRoot
    /\ consumed /\ dialog.visible_ /\ events = << >>

\* the last operation was a setVisible(true) that showed the dialog
ShowWas ==
    last.op = "setVisible" /\ last.arg[2] = TRUE /\ ~last.pre.visible /\ dialog.visible_

\* C12 as stated: when a hidden or unrendered dialog is shown, the focus ends
\* on the default button if the button set has a default key with a rendered
\* button, and on the dialog's root element otherwise, on every user agent.
C12_Original ==
    ShowWas
        => doc.activeElement =
             IF DefaultButtonIndex # 0 THEN ButtonEl(DefaultButtonIndex) ELSE Root

\* the dialog, its button set, the document and the listeners stay as they are
\* and no event is dispatched
NothingChanges ==
    /\ dialog' = dialog /\ buttonSet' = buttonSet /\ doc' = doc
    /\ listeners' = listeners /\ events' = << >>

\* C13: render() on a dialog that is in the document raises the
\* already-rendered error and changes nothing (elements, listeners,
\* visibility); renderBefore() raises the not-supported error in every state
\* and changes nothing.
C13_RenderErrors ==
    [][/\ (last'.op = "render" /\ dialog.inDocument_)
            => (err' = ALREADY_RENDERED /\ NothingChanges)
       /\ last'.op = "renderBefore"
            => (err' = NOT_SUPPORTED /\ NothingChanges)]_vars

C13_Witness ==
    /\ last.op = "render" /\ err = ALREADY_RENDERED
    /\ dialog.inDocument_ /\ dialog.visible_
    /\ listeners = {L_TITLE_CLOSE, L_FOCUSIN, L_KEYDOWN, L_RESIZE, L_BUTTON_CLICK}

\* C14: when the default button cannot take the focus during setVisible(true)
\* (it is disabled; IE then throws from focus()), the failure is swallowed and
\* the show completes: the dialog ends visible with its keydown, resize and
\* button-click listeners registered, and no error reaches the caller.
C14_FocusFailureSwallowed ==
    (last.op = "setVisible" /\ last.arg[2] = TRUE /\ ~last.pre.visible
        /\ DefaultButtonIndex # 0 /\ doc.buttons[DefaultButtonIndex].disabled)
        => /\ err = NoErr
           /\ dialog.visible_ /\ doc.elementShown
           /\ {L_KEYDOWN, L_RESIZE, L_BUTTON_CLICK} \subseteq listeners
           /\ doc.activeElement # ButtonEl(DefaultButtonIndex)

C14_Witness ==
    /\ last.op = "setVisible" /\ last.arg[2] = TRUE /\ ~last.pre.visible
    /\ doc.userAgent = "IE"
    /\ DefaultButtonIndex # 0 /\ doc.buttons[DefaultButtonIndex].disabled
    /\ err = NoErr /\ dialog.visible_
    /\ listeners = {L_TITLE_CLOSE, L_FOCUSIN, L_KEYDOWN, L_RESIZE, L_BUTTON_CLICK}

\* an accessor step that finds the dialog hidden ends with it in the document,
\* attached, still hidden, with the listeners of enterDocument and no error
RendersHidden ==
    /\ err' = NoErr
    /\ dialog'.inDocument_ /\ doc'.elementInDoc
    /\ ~dialog'.visible_ /\ ~doc'.elementShown
    /\ listeners' = {L_TITLE_CLOSE, L_FOCUSIN}

\* C15 as stated: any element accessor called while the dialog is not in the
\* document renders it, leaving it in the document and still hidden; an
\* accessor called on a dialog in the document never renders it again and
\* never raises the already-rendered error.
C15_Original ==
    [][last'.op \in Accessors
         => IF ~dialog.inDocument_ THEN RendersHidden
            ELSE err' = NoErr /\ NothingChanges]_vars

\* C15, amended: getContentElement called while the dialog has no content
\* element, and any other element accessor called while the dialog is not in
\* the document, renders it, leaving it in the document and still hidden;
\* otherwise an accessor changes nothing, so that on a dialog in the document
\* it never renders again and never raises the already-rendered error, and
\* getContentElement on a dialog that has left the document leaves it out.
C15_LazyRender ==
    [][last'.op \in Accessors
         => IF (IF last'.op = "getContentElement" THEN ~dialog.contentEl_
                ELSE ~dialog.inDocument_)
            THEN RendersHidden
            ELSE err' = NoErr /\ NothingChanges]_vars

C15_Witness ==
    /\ last.op = "getTitleElement" /\ err = NoErr
    /\ last.pre.listeners = {} /\ dialog.dragger_
    /\ dialog.element_ /\ dialog.inDocument_ /\ doc.elementInDoc
    /\ ~dialog.visible_ /\ ~doc.elementShown
    /\ listeners = {L_TITLE_CLOSE, L_FOCUSIN}

\* C16 as stated: every select event the dialog dispatches carries a key that
\* is, at dispatch time, a key of the dialog's current button set, and the
\* caption that the button set maps that key to.
C16_Original ==
    \A i \in 1..Len(Selects) :
        /\ dialog.buttons_ # NULL
        /\ MapHas(buttonSet.map, Selects[i].key)
        /\ Selects[i].caption = MapGet(buttonSet.map, Selects[i].key)

\* C17 as stated: operations and events on one dialog neither change nor
\* depend on the rendered buttons of another dialog; for two dialogs using the
\* shared default OK/Cancel button set, whether Enter (on a target that is not
\* a button or form control) activates the default button is decided by the
\* enabled state of the dialog's own default button.
C17_Original ==
    [][/\ last'.op \notin {"other.render", "other.button.disabled"}
            => doc'.otherButtons = doc.otherButtons
       /\ (last'.op = "onKeyDown_" /\ last'.e.keyCode = ENTER
             /\ last'.e.target.isRoot /\ DefaultButtonIndex # 0)
            => (events' # << >> <=> ~doc.buttons[DefaultButtonIndex].disabled)]_vars

\* C18: immediately after ButtonSet.render (or attachToElement) the container
\* holds exactly one button per key of the mapping, in the mapping's order,
\* each button's name being its key; buttons of an earlier render are gone.
C18_OneButtonPerKey ==
    (last.op \in {"ButtonSet.render", "ButtonSet.attachToElement"}
        /\ buttonSet.element_)
        => /\ RenderedNames = MapKeys(buttonSet.map)
           /\ \A i, j \in 1..Len(doc.buttons) :
                 doc.buttons[i].name = doc.buttons[j].name => i = j
           /\ \A i \in 1..Len(doc.buttons) : ~doc.buttons[i].disabled

C18_Witness ==
    /\ last.op = "ButtonSet.render" /\ buttonSet.element_
    /\ hist.removals = 1 /\ Len(hist.added) = 2
    /\ Len(doc.buttons) = 1
    /\ doc.buttons[1].name = buttonSet.map[1].key
    /\ doc.buttons[1].name = hist.added[2]

\* the rendered buttons that carry the default style
MarkedDefault ==
    {i \in 1..Len(doc.buttons) : doc.buttons[i].className = "goog-buttonset-default"}

\* C19: immediately after ButtonSet.render a rendered button carries the default style if
\* and only if its key equals the default key, so at most one rendered button
\* is marked default, and none is when no default key is set.
C19_DefaultStyle ==
    (last.op \in {"ButtonSet.render", "ButtonSet.attachToElement"}
        /\ buttonSet.element_)
        => /\ \A i \in 1..Len(doc.buttons) :
                 i \in MarkedDefault <=> doc.buttons[i].name = buttonSet.defaultButton_
           /\ Cardinality(MarkedDefault) <= 1
           /\ buttonSet.defaultButton_ = NULL => MarkedDefault = {}

C19_Witness ==
    /\ last.op = "ButtonSet.render" /\ buttonSet.element_
    /\ Len(doc.buttons) = 2
    /\ buttonSet.defaultButton_ = doc.buttons[2].name
    /\ MarkedDefault = {2}

\* C20 as stated: while the dialog is visible, whenever the focus moves past
\* its last element (onto its tab-catcher), the focus is eventually moved back
\* to the dialog's root element, unless the dialog is hidden first; this holds
\* for dialogs built by render and for dialogs built by decorate.
C20_Original ==
    (last.op = "onFocus_" /\ dialog.visible_)
        ~> (doc.activeElement = Root \/ ~dialog.visible_)

\* the key decorate reads from a button: its name, or else its id
MarkupKey(button) == IF Truthy(button.name) THEN button.name ELSE button.id

\* the element of a decorate step has a button named 'cancel'
HasCancelNamed(element) ==
    \E i \in 1..Len(element.buttons) :
        element.buttons[i].name = DefaultButtonKeys.CANCEL

\* C21 as stated: ButtonSet.decorate on a container of buttons makes the first
\* button found the default and the button named 'cancel' the cancel button:
\* afterwards getDefault() returns the first button's key, and getCancel()
\* returns 'cancel' exactly when a button of that name is present.
C21_Original ==
    (last.op = "ButtonSet.decorate" /\ last.arg[2].isElement
        /\ last.arg[2].buttons # << >>)
        => /\ ButtonSet_getDefault(Cur) = MarkupKey(last.arg[2].buttons[1])
           /\ ButtonSet_getCancel(Cur) = DefaultButtonKeys.CANCEL
                 <=> HasCancelNamed(last.arg[2])

\* C21, amended: ButtonSet.decorate on a container of buttons makes the first
\* button's key the default key when that button has a name or an id, and
\* makes 'cancel' the cancel key when a button of that name is present;
\* otherwise the default key, respectively the cancel key, stays what it was
\* before the call. On a new button set getCancel() therefore returns
\* 'cancel' exactly when such a button is present.
C21_DecorateDefaultCancel ==
    [][(last'.op = "ButtonSet.decorate" /\ last'.arg[2].isElement)
         => LET element == last'.arg[2]
                first == IF element.buttons # << >>
                         THEN MarkupKey(element.buttons[1]) ELSE ""
            IN  /\ buttonSet'.defaultButton_ =
                      IF Truthy(first) THEN first ELSE buttonSet.defaultButton_
                /\ buttonSet'.cancelButton_ =
                      IF HasCancelNamed(element) THEN DefaultButtonKeys.CANCEL
                      ELSE buttonSet.cancelButton_
                /\ buttonSet'.element_ /\ err' = NoErr]_vars

C21_Witness ==
    /\ last.op = "ButtonSet.decorate"
    /\ last.arg[2] = Container(<<ButtonMarkup("", DefaultButtonKeys.CANCEL),
                                 ButtonMarkup(DefaultButtonKeys.CANCEL, "")>>)
    /\ MapKeys(buttonSet.map) = <<DefaultButtonKeys.CANCEL>>
    /\ buttonSet.defaultButton_ = DefaultButtonKeys.CANCEL
    /\ buttonSet.cancelButton_ = DefaultButtonKeys.CANCEL
    /\ MarkedDefault = {1}

\* C22: in every reachable state an iframe mask element exists only if the
\* dialog is modal and was constructed with the iframe-mask option, and a
\* background mask element exists only if the dialog is modal; immediately
\* after the dialog's DOM is created (createDom, decorate) and after every
\* setModal call the background mask exists if and only if the dialog is
\* modal, and the iframe mask if and only if it is modal and has the option.
C22_MasksFollowModal ==
    /\ [](/\ dialog.bgIframeEl_ => (dialog.modal_ /\ dialog.useIframeMask_)
          /\ dialog.bgEl_ => dialog.modal_)
    /\ [][(last'.op = "setModal" \/ (~dialog.element_ /\ dialog'.element_))
            => /\ dialog'.bgEl_ <=> dialog'.modal_
               /\ dialog'.bgIframeEl_ <=> (dialog'.modal_ /\ dialog'.useIframeMask_)]_vars

C22_Witness ==
    /\ last.op = "setModal" /\ last.arg[2] = FALSE
    /\ dialog.useIframeMask_ /\ dialog.visible_
    /\ ~dialog.modal_ /\ ~dialog.bgEl_ /\ ~dialog.bgIframeEl_
    /\ ~doc.bgInDoc /\ ~doc.bgIframeInDoc

\* C23: dispose() called in any state of a dialog that is not yet disposed
\* leaves it not visible, with no event listener registered and both masks
\* removed; if the dialog was visible exactly one after-hide event is
\* dispatched on the way (none otherwise), and the body of the disposal runs
\* exactly once, also when disposeOnHide is set: the hide that the disposal
\* triggers does not dispose a second time.
C23_DisposeOnce ==
    last.op = "dispose"
        => /\ err = NoErr
           /\ dialog.disposed_ /\ ~dialog.visible_ /\ ~dialog.inDocument_
           /\ listeners = {}
           /\ ~dialog.bgEl_ /\ ~dialog.bgIframeEl_
           /\ ~doc.bgInDoc /\ ~doc.bgIframeInDoc
           /\ Len(AfterHides) = (IF last.pre.visible THEN 1 ELSE 0)
           /\ Selects = << >>
           /\ dialog.disposals = 1

C23_Witness ==
    /\ last.op = "dispose" /\ last.pre.visible /\ dialog.disposeOnHide_
    /\ dialog.useIframeMask_ /\ dialog.modal_
    /\ last.pre.listeners =
         {L_TITLE_CLOSE, L_FOCUSIN, L_KEYDOWN, L_RESIZE, L_BUTTON_CLICK}
    /\ listeners = {} /\ ~dialog.visible_ /\ dialog.disposals = 1
    /\ Len(events) = 1 /\ events[1].type = AFTER_HIDE

\* C24: a click on the title close box dispatches one select event with the
\* cancel key when the button set has one, and then hides the dialog exactly
\* when the event was not cancelled; when there is no button set or no cancel
\* key it hides the dialog without dispatching any select event.
C24_TitleClose ==
    last.op = "onTitleCloseClick_"
        => /\ err = NoErr
           /\ IF HasCancelKey
              THEN /\ Len(Selects) = 1 /\ events[1].type = SELECT
                   /\ Selects[1].key = buttonSet.cancelButton_
                   /\ Selects[1].caption = MapGet(buttonSet.map, buttonSet.cancelButton_)
                   /\ Selects[1].visible = last.pre.visible
                   /\ dialog.visible_ <=> (last.pre.visible /\ Selects[1].prevented)
              ELSE Selects = << >> /\ ~dialog.visible_
           /\ Len(AfterHides) = (IF last.pre.visible /\ ~dialog.visible_ THEN 1 ELSE 0)

C24_Witness ==
    /\ last.op = "onTitleCloseClick_" /\ last.pre.visible
    /\ dialog.buttons_ # NULL /\ buttonSet.cancelButton_ = NULL
    /\ ~dialog.visible_
    /\ Len(events) = 1 /\ events[1].type = AFTER_HIDE

\* C25: ButtonSet.set(key, caption, isDefault, isCancel) maps key to caption,
\* makes key the default key when isDefault is true and the cancel key when
\* isCancel is true, and otherwise leaves the default key and the cancel key
\* unchanged: a false flag never clears them, even when key is the current
\* default or cancel key. The call changes nothing else of the button set
\* (the same set, with its container and rendered buttons, is there after it).
C25_SetFlags ==
    [][last'.op = "ButtonSet.set"
         => LET a == last'.arg[2]
            IN  /\ buttonSet'.defaultButton_ =
                      IF a.isDefault THEN a.key ELSE buttonSet.defaultButton_
                /\ buttonSet'.cancelButton_ =
                      IF a.isCancel THEN a.key ELSE buttonSet.cancelButton_
                /\ MapGet(buttonSet'.map, a.key) = a.caption
                /\ \A k \in BsKeys \ {a.key} :
                      MapGet(buttonSet'.map, k) = MapGet(buttonSet.map, k)
                /\ buttonSet'.element_ = buttonSet.element_
                /\ doc' = doc /\ err' = NoErr]_vars

C25_Witness ==
    /\ last.op = "ButtonSet.set"
    /\ ~last.arg[2].isDefault /\ ~last.arg[2].isCancel
    /\ buttonSet.defaultButton_ = last.arg[2].key
    /\ buttonSet.cancelButton_ = last.arg[2].key
    /\ hist.overwritten

\* the listeners that setVisible adds on show and removes on hide
ShowListeners == {L_KEYDOWN, L_RESIZE, L_BUTTON_CLICK}

\* C26: in every state reached between operations, the keydown listener on
\* the root, the resize listener on the window and the click listener on the
\* button container are registered if and only if the dialog is visible, and
\* each is registered at most once however often the dialog has been shown
\* and hidden: the dialog never asks for a listener it has registered already.
C26_ListenersIffVisible ==
    /\ \A l \in ShowListeners : l \in listeners <=> dialog.visible_
    /\ ~dialog.relistened

C26_Witness ==
    /\ last.op = "setVisible" /\ last.arg[2] = TRUE /\ dialog.visible_
    /\ hist.show.phase = "shown" /\ hist.show.rendered
    /\ L_TITLE_CLOSE \in last.pre.listeners
    /\ ShowListeners \subseteq listeners

\* C27: setVisible(v) called when the dialog's visibility already equals v
\* changes nothing: it does not render the dialog, adds and removes no
\* listener, dispatches no event and does not dispose; in particular
\* setVisible(false) on a never-rendered dialog leaves it unrendered.
C27_SetVisibleNoOp ==
    [][(last'.op = "setVisible" /\ last'.arg[2] = dialog.visible_)
         => (err' = NoErr /\ NothingChanges)]_vars

C27_Witness ==
    /\ last.op = "setVisible" /\ last.arg[2] = FALSE /\ ~last.pre.visible
    /\ dialog.disposeOnHide_ /\ ~dialog.disposed_
    /\ ~dialog.element_ /\ ~dialog.inDocument_ /\ ~doc.elementInDoc
    /\ listeners = {} /\ events = << >>

\* C28: a click inside the button container dispatches a select event if and
\* only if it lands on, or inside, an enabled button element, and the event
\* then carries that button's name and the caption mapped to it; a click on a
\* disabled button, or on the container outside any button, dispatches
\* nothing and leaves the dialog visible and its state unchanged.
C28_ClickSelects ==
    [][last'.op = "onButtonClick_"
         => LET button == last'.e.target.button
            IN  IF button # 0 /\ ~doc.buttons[button].disabled
                THEN /\ err' = NoErr
                     /\ Len(Selects') = 1 /\ events'[1].type = SELECT
                     /\ Selects'[1].key = doc.buttons[button].name
                     /\ Selects'[1].caption =
                           MapGet(buttonSet.map, doc.buttons[button].name)
                ELSE /\ err' = NoErr /\ NothingChanges
                     /\ dialog'.visible_]_vars

C28_Witness ==
    /\ last.op = "onButtonClick_" /\ last.pre.visible
    /\ last.e.target.tagName = "BUTTON" /\ last.e.target.disabled
    /\ doc.buttons[last.e.target.button].disabled
    /\ events = << >> /\ dialog.visible_
    /\ listeners = last.pre.listeners

\* C29: a keydown is consumed (propagation stopped and default prevented)
\* exactly when it dispatched a select event, closed the dialog, or was
\* Shift+Tab on the root element; every other keydown, Escape and Enter on an
\* enabled SELECT included, is left unconsumed and changes no dialog state.
C29_KeyDownConsumed ==
    [][last'.op = "onKeyDown_"
         => LET e == last'.e
            IN  /\ consumed' <=> \/ Selects' # << >>
                                 \/ dialog.visible_ /\ ~dialog'.visible_
                                 \/ e.keyCode = TAB /\ e.shiftKey /\ e.target.isRoot
                /\ ~consumed' => NothingChanges
                /\ (e.keyCode \in {ESC, ENTER} /\ EnabledSelect(e.target))
                      => ~consumed']_vars

C29_Witness ==
    /\ last.op = "onKeyDown_" /\ last.e.keyCode = ENTER
    /\ EnabledSelect(last.e.target)
    /\ DefaultButtonIndex # 0 /\ ~doc.buttons[DefaultButtonIndex].disabled
    /\ ~consumed /\ events = << >> /\ dialog.visible_

\* C30 as stated: for every key of the button set, activating its button with
\* Enter while it has the focus dispatches a select event with the same key
\* and the same caption as clicking that button, for string captions and for
\* DOM-node captions alike.
C30_Original ==
    (dialog.visible_ /\ ~dialog.disposed_)
        => \A i \in 1..Len(doc.buttons), p \in BOOLEAN :
             (~doc.buttons[i].disabled /\ MapHas(buttonSet.map, doc.buttons[i].name))
                => onKeyDown_(Cur, EnterOnButton(i), p).events
                     = onButtonClick_(Cur, ContainerButton(Cur, i), p).events

\* C31 as stated: whenever the dialog is both modal and visible, its
\* background mask element exists, is attached to the document and is
\* displayed, after any interleaving of setModal, render, setVisible and
\* resize events (setModal(false) followed by setModal(true) on a rendered or
\* visible dialog included).
C31_Original ==
    (dialog.modal_ /\ dialog.visible_)
        => (dialog.bgEl_ /\ doc.bgInDoc /\ doc.bgShown)

\* C32 as stated: the deferred focus callback scheduled when the tab-catcher
\* receives the focus never runs against a dialog whose root element is gone:
\* if the dialog is hidden or disposed between the scheduling and the firing
\* of the timer, the callback does not execute or has no effect (the focus
\* stays where it is), and it never dereferences a null root element.
C32_Original ==
    [][last'.op = "focusElement_"
         => /\ err' # TypeError
            /\ ~dialog.visible_
                  => (err' = NoErr /\ doc'.activeElement = doc.activeElement)]_vars

\* C33: whenever the dialog is in the document, a dragger exists if and only
\* if the dialog is draggable, after any sequence of setDraggable, render,
\* decorate, show, hide, exitDocument and dispose; consequently the background
\* resize performed on show and on a window resize never finds the dialog
\* draggable with no dragger, and raises no error.
C33_DraggerIffDraggable ==
    /\ dialog.inDocument_ => (dialog.dragger_ <=> dialog.draggable_)
    /\ last.op \in {"setVisible", "onResize_"} => err = NoErr

C33_Witness ==
    /\ last.op = "onResize_" /\ err = NoErr
    /\ dialog.inDocument_ /\ dialog.visible_
    /\ ~dialog.draggable_ /\ ~dialog.dragger_
    /\ doc.bgShown

\* C34 as stated: a select event is dispatched only while the dialog is
\* visible: no click on the title close box, click on a button, or keydown
\* delivered while the dialog is hidden (rendered but not visible) dispatches
\* a select event.
C34_Original ==
    (last.op \in {"onTitleCloseClick_", "onButtonClick_", "onKeyDown_"}
        /\ ~last.pre.visible)
        => Selects = << >>

\* C35 as stated: key handling never uses a missing button set: when the
\* dialog has no button set (setButtonSet(null)), every keydown while it is
\* visible, Enter on a named button element inside the dialog included,
\* completes without an error and without dispatching a select event.
C35_Original ==
    (last.op = "onKeyDown_" /\ last.pre.visible /\ dialog.buttons_ = NULL)
        => (err = NoErr /\ Selects = << >>)

====
